---------------------------- MODULE Spec2Model ----------------------------
(***************************************************************************)
(* Metro-North Railroad Train Clock (docs/arduino-train-clock/src/main.cpp) *)
(*                                                                         *)
(* The sketch is a single thread: setup() runs once, loop() runs forever.  *)
(* The model has one action per straight-line stretch of the sketch        *)
(* between two reads of WiFi.status(), plus the environment's action that  *)
(* changes the link.  The serial output is kept line by line, as strings.  *)
(*                                                                         *)
(* The box-drawing characters of the report are written with one ASCII     *)
(* character each, so that Len counts characters as the report shows them: *)
(*   corners and tees  +      horizontal rules  -  (banner: =)             *)
(*   vertical rules    |  (banner: H)           arrow  >                   *)
(***************************************************************************)
EXTENDS Integers, Sequences, FiniteSets, TLC

VARIABLES
    pc,          \* position of the sketch's single thread
    phase,       \* "setup" while setup() runs, "loop" afterwards (the return address)
    link,        \* TRUE iff WiFi.status() would return WL_CONNECTED now
    now,         \* millis()
    lastUpdate,  \* unsigned long lastUpdate
    attempts,    \* int attempts, the local of connectWiFi (0 outside a call)
    wifiOut,     \* serial lines of setup()/loop()/connectWiFi() in this iteration
    out,         \* serial lines of fetchTrainData() in this iteration
    calls,       \* calls on the WiFi, HTTP and JSON libraries in this iteration, in order
    resp,        \* what http.GET() and deserializeJson() gave in this iteration
    outcome      \* the branch fetchTrainData() took in this iteration ("none": not called)

\* An iteration is one run of loop() from line 69 on; setup() counts as the
\* first.  wifiOut, out, calls, resp and outcome are emptied where one starts.

vars == <<pc, phase, link, now, lastUpdate, attempts, wifiOut, out, calls,
          resp, outcome>>

---------------------------------------------------------------------------
(* Program constants *)

UPDATE_INTERVAL == 30000
HTTP_CODE_OK == 200
MaxConnectAttempts == 40
ConnectPollDelay == 500
LoopDelayMs == 100
HttpTimeoutMs == 10000
SerialWaitMs == 10

(* Bounds of the model *)

MaxMillis == 31000

\* In WrapSpec, lastUpdate was taken this many ms before millis() wraps
WrapLead == 300

\* In LiveSpec, lastUpdate was taken this many ms before millis() wraps
LiveLead == 19100

---------------------------------------------------------------------------
(* Text helpers *)

Digit(d) == SubSeq("0123456789", d + 1, d + 1)

RECURSIVE NatToStr(_)
NatToStr(n) == IF n < 10 THEN Digit(n) ELSE NatToStr(n \div 10) \o Digit(n % 10)

\* Serial.print(int): decimal, with a minus sign for a negative value
IntToStr(n) == IF n < 0 THEN "-" \o NatToStr(-n) ELSE NatToStr(n)

RECURSIVE Repeat(_, _)
Repeat(c, n) == IF n <= 0 THEN "" ELSE c \o Repeat(c, n - 1)

\* As the padding loop would be if it ran for the magnitude of padding
PadMagnitude(padding) == Repeat(" ", IF padding < 0 THEN -padding ELSE padding)

\* for (int i = 0; i < padding; i++) Serial.print(" ");
Pad(padding) == Repeat(" ", padding)

\* C++ int division truncates toward zero
CDiv(a, b) == IF a >= 0 THEN a \div b ELSE -((-a) \div b)

---------------------------------------------------------------------------
(* unsigned long, 32 bits wide.  TLC's integers are 32-bit signed,         *)
(* so an unsigned long is held as its bit pattern read as a signed number: *)
(* a value v < 2^31 as v, a value v >= 2^31 as v - 2^32.  The operators    *)
(* below are addition, subtraction, comparison and division modulo 2^32   *)
(* on that form, arranged so that no intermediate result leaves 32 bits.   *)

MaxInt32 == 2147483647

\* a + d modulo 2^32, for 0 <= d < 2^31
U32Add(a, d) ==
    IF a <= MaxInt32 - d THEN a + d
    ELSE (a - MaxInt32 - 1) + (d - MaxInt32 - 1)

\* a - b modulo 2^32
U32Sub(a, b) ==
    IF (a >= 0) = (b >= 0) THEN a - b
    ELSE IF a >= 0
         THEN IF a <= MaxInt32 + b THEN a - b
              ELSE (a - MaxInt32 - 1) - (b + MaxInt32 + 1)
         ELSE IF a >= b - MaxInt32 - 1 THEN a - b
              ELSE (a + MaxInt32 + 1) - (b - MaxInt32 - 1)

\* a >= c as unsigned numbers, for 0 <= c < 2^31
U32Ge(a, c) == a < 0 \/ a >= c

\* a / k as unsigned numbers, for 2 <= k < 2^15: a natural number
U32Div(a, k) ==
    IF a >= 0 THEN a \div k
    ELSE LET u == a + MaxInt32 + 1          \* the value is u + 2^31
             h == MaxInt32 \div k           \* 2^31 - 1 = h * k + r
             r == MaxInt32 % k
         IN  (u \div k) + h + ((u % k) + r + 1) \div k

---------------------------------------------------------------------------
(* JSON values as ArduinoJson hands them out: a variant with a type tag.   *)
(* t = "none" is a missing member (or null), "str" a string, "int" an      *)
(* integer number.                                                         *)

None == [t |-> "none", s |-> "", n |-> 0]
Str(x) == [t |-> "str", s |-> x, n |-> 0]
Num(k) == [t |-> "int", s |-> "", n |-> k]

\* As variant | "default" would be if a number were converted to its text
OrStrConverting(v, d) ==
    IF v.t = "str" THEN v.s ELSE IF v.t = "int" THEN IntToStr(v.n) ELSE d

\* variant | "default" for const char*: the string if the variant is one
OrStr(v, d) == IF v.t = "str" THEN v.s ELSE d

\* variant | 0 for int: the number if the variant is one
OrInt(v, d) == IF v.t = "int" THEN v.n ELSE d

\* A JsonObject that has none of the seven members (also what iterating a
\* non-object array element yields)
EmptyTrain ==
    [trip_id |-> None, route |-> None, destination |-> None, track |-> None,
     arrival_time |-> None, status |-> None, delay_seconds |-> None]

\* The locals of one iteration of the loop over trains
Extract(train) ==
    [trip_id       |-> OrStr(train.trip_id, "N/A"),
     route         |-> OrStr(train.route, "Unknown Route"),
     destination   |-> OrStr(train.destination, "Unknown"),
     track         |-> OrStr(train.track, "TBD"),
     arrival_time  |-> OrStr(train.arrival_time, "N/A"),
     status        |-> OrStr(train.status, "Unknown"),
     delay_seconds |-> OrInt(train.delay_seconds, 0)]

---------------------------------------------------------------------------
(* displayTrainInfo: the lines of one train's block *)

BlockTop == "+-----------------------------------------------------------+"
BlockSep == "+-----------------------------------------------------------+"
BlockBottom == "+-----------------------------------------------------------+"

\* int padding = 50 - strlen(route) - 12;
HeaderPadding(route) == 50 - Len(route) - 12

HeaderLine(count, route) ==
    "| Train #" \o IntToStr(count) \o " - " \o route
        \o Pad(HeaderPadding(route)) \o "|"

\* padding = 44 - strlen(text);
FieldPadding(text) == 44 - Len(text)

FieldLine(label, text) == label \o text \o Pad(FieldPadding(text)) \o "|"

DestinationLine(destination) == FieldLine("| > Destination:  ", destination)
TrackLine(track) == FieldLine("|   Track:        ", track)
ArrivalLine(arrival_time) == FieldLine("|   Arrival:      ", arrival_time)

\* As line 265 would be if a delay of zero seconds were annotated too
DelayNoteFromZero(delay_seconds) ==
    IF delay_seconds >= 0
    THEN " (+" \o IntToStr(CDiv(delay_seconds, 60)) \o " min)"
    ELSE ""

\* " (+<minutes> min)" when delay_seconds > 0
DelayNote(delay_seconds) ==
    IF delay_seconds > 0
    THEN " (+" \o IntToStr(CDiv(delay_seconds, 60)) \o " min)"
    ELSE ""

StatusPadding(st, delay_seconds) ==
    IF delay_seconds > 0
    THEN 44 - Len(st) - 8 - (IF delay_seconds >= 600 THEN 1 ELSE 0)
    ELSE 44 - Len(st)

StatusLine(st, delay_seconds) ==
    "|   Status:       " \o st \o DelayNote(delay_seconds)
        \o Pad(StatusPadding(st, delay_seconds)) \o "|"

\* Lines 226-278: the eight bordered lines of a block and the blank line after
TrainBlock(count, train) ==
    LET r == Extract(train) IN
    << BlockTop,
       HeaderLine(count, r.route),
       BlockSep,
       DestinationLine(r.destination),
       TrackLine(r.track),
       ArrivalLine(r.arrival_time),
       StatusLine(r.status, r.delay_seconds),
       BlockBottom,
       "" >>

\* As the loop over trains would be if count were incremented after a block
RECURSIVE TrainBlocksCountAfter(_, _)
TrainBlocksCountAfter(trains, count) ==
    IF trains = <<>> THEN <<>>
    ELSE TrainBlock(count, Head(trains))
             \o TrainBlocksCountAfter(Tail(trains), count + 1)

\* The loop over trains: count is incremented before each block
RECURSIVE TrainBlocks(_, _)
TrainBlocks(trains, count) ==
    IF trains = <<>> THEN <<>>
    ELSE TrainBlock(count + 1, Head(trains)) \o TrainBlocks(Tail(trains), count + 1)

\* The value of count after the loop
RECURSIVE LoopCount(_, _)
LoopCount(trains, count) ==
    IF trains = <<>> THEN count ELSE LoopCount(Tail(trains), count + 1)

Banner ==
    << "",
       "+===========================================================+",
       "H           METRO-NORTH RAILROAD - UPCOMING TRAINS          H",
       "+===========================================================+",
       "" >>

NoTrainDataNotice == "No train data available"
NoUpcomingNotice == "No upcoming trains scheduled"

MissingKeyLines ==
    << NoTrainDataNotice,
       "",
       "Note: Ensure your web server provides JSON in the format:",
       "  { \"trains\": [ { \"trip_id\": \"...\", \"route\": \"...\", ... } ] }" >>

TotalLine(count) == "Total trains: " \o IntToStr(count)

SummaryLines(count, millis) ==
    << TotalLine(count),
       "Last updated: " \o NatToStr(U32Div(millis, 1000)) \o " seconds since boot",
       "" >>

(* A decoded document: whether it has the member "trains", whether that    *)
(* member is an array, and the array's elements.                           *)
Doc(hasTrains, isArray, elems) ==
    [hasTrains |-> hasTrains, isArray |-> isArray, elems |-> elems]

\* JsonArray trains = doc["trains"]; a member that is no array gives a null
\* array, of size 0
TrainsOf(doc) == IF doc.hasTrains /\ doc.isArray THEN doc.elems ELSE <<>>

\* As line 197 would be if an empty array counted as a missing member
ContainsTrainsNonEmpty(doc) == doc.hasTrains /\ TrainsOf(doc) # <<>>

\* doc.containsKey("trains")
ContainsTrains(doc) == doc.hasTrains

\* As displayTrainInfo would be without the return of line 208
DisplayTrainInfoNoReturn(doc, millis) ==
    Banner \o
    ( IF ~ContainsTrains(doc) THEN MissingKeyLines
      ELSE (IF Len(TrainsOf(doc)) = 0 THEN << NoUpcomingNotice >> ELSE <<>>)
               \o TrainBlocks(TrainsOf(doc), 0)
               \o SummaryLines(LoopCount(TrainsOf(doc), 0), millis) )

DisplayTrainInfo(doc, millis) ==
    Banner \o
    ( IF ~ContainsTrains(doc) THEN MissingKeyLines
      ELSE IF Len(TrainsOf(doc)) = 0 THEN << NoUpcomingNotice >>
      ELSE TrainBlocks(TrainsOf(doc), 0)
               \o SummaryLines(LoopCount(TrainsOf(doc), 0), millis) )

---------------------------------------------------------------------------
(* fetchTrainData *)

CannotFetchNotice == "Cannot fetch data: WiFi not connected"
ApiEndpoint == "http://192.168.1.100:5000/api/trains"
WifiSsid == "Your_WiFi_SSID"

\* http.errorToString(httpCode): the library's text for a transport error
ErrorToString(httpCode) == "error(" \o IntToStr(httpCode) \o ")"

(* What http.GET() and http.getString() can give:                          *)
(* a code <= 0 is a transport error, a code > 0 an HTTP status;            *)
(* a body is the result of deserializeJson on it: an error text, or the    *)
(* decoded document.                                                       *)
HttpCodes == {-11, -1, HTTP_CODE_OK, 204, 404}

BadBody(err) == [ok |-> FALSE, err |-> err, doc |-> Doc(FALSE, FALSE, <<>>)]
GoodBody(doc) == [ok |-> TRUE, err |-> "Ok", doc |-> doc]

\* The example of the sketch's comment (lines 178-188)
ExampleTrain ==
    [trip_id |-> Str("123"), route |-> Str("Hudson Line"),
     destination |-> Str("Grand Central"), track |-> Str("5"),
     arrival_time |-> Str("14:30"), status |-> Str("On Time"),
     delay_seconds |-> Num(0)]

LateTrain ==
    [ExampleTrain EXCEPT !.status = Str("Delayed"), !.delay_seconds = Num(125),
                         !.track = None]

\* No GET was made
NoResponse == [code |-> 0, body |-> BadBody("")]

Bodies ==
    { BadBody("InvalidInput"), BadBody("EmptyInput"),
      GoodBody(Doc(FALSE, FALSE, <<>>)),
      GoodBody(Doc(TRUE, FALSE, <<>>)),
      GoodBody(Doc(TRUE, TRUE, <<>>)),
      GoodBody(Doc(TRUE, TRUE, <<ExampleTrain>>)),
      GoodBody(Doc(TRUE, TRUE, <<LateTrain, EmptyTrain>>)) }

\* How long http.GET() blocks: no measurable time, or the whole timeout
GetDurations == {0, HttpTimeoutMs}

FetchHeaderLines ==
    << "", "--- Fetching Train Data ---", "Endpoint: " \o ApiEndpoint >>

\* The branch taken after http.GET() (lines 145-168)
Branch(httpCode, body) ==
    IF httpCode > 0
    THEN IF httpCode = HTTP_CODE_OK
         THEN IF ~body.ok THEN "parse_failed"
              ELSE IF ~ContainsTrains(body.doc) THEN "no_key"
              ELSE IF Len(TrainsOf(body.doc)) = 0 THEN "empty"
              ELSE "rendered"
         ELSE "http_status"
    ELSE "transport_error"

\* Lines 145-168: the serial lines after http.GET() returned at time millis
ResponseLines(httpCode, body, millis) ==
    IF httpCode > 0
    THEN << "HTTP Response Code: " \o IntToStr(httpCode) >> \o
         ( IF httpCode = HTTP_CODE_OK
           THEN IF ~body.ok
                THEN << "JSON parsing failed: " \o body.err >>
                ELSE DisplayTrainInfo(body.doc, millis)
           ELSE << "HTTP request failed" >> )
    ELSE << "HTTP request error: " \o ErrorToString(httpCode) >>

\* As lines 135-170 would be if the branches that report an error returned
\* before line 170
ResponseCallsEndOnSuccess(httpCode, body) ==
    << "http.begin", "http.setTimeout", "http.addHeader", "http.GET" >> \o
    ( IF httpCode > 0 /\ httpCode = HTTP_CODE_OK
      THEN << "http.getString", "deserializeJson" >> \o
           (IF body.ok THEN << "displayTrainInfo", "http.end" >> ELSE <<>>)
      ELSE <<>> )

\* As lines 135-170 would be if every status were taken for a success
ResponseCallsAnyStatus(httpCode, body) ==
    << "http.begin", "http.setTimeout", "http.addHeader", "http.GET" >> \o
    ( IF httpCode > 0
      THEN << "http.getString", "deserializeJson" >> \o
           (IF body.ok THEN << "displayTrainInfo" >> ELSE <<>>)
      ELSE <<>> ) \o
    << "http.end" >>

\* Lines 135-170: the calls made on the HTTP client and the JSON library
ResponseCalls(httpCode, body) ==
    << "http.begin", "http.setTimeout", "http.addHeader", "http.GET" >> \o
    ( IF httpCode > 0 /\ httpCode = HTTP_CODE_OK
      THEN << "http.getString", "deserializeJson" >> \o
           (IF body.ok THEN << "displayTrainInfo" >> ELSE <<>>)
      ELSE <<>> ) \o
    << "http.end" >>

\* The model follows the clock up to MaxMillis, through the wrap-around if
\* it starts before it (now < 0 is a time of 2^31 ms or more): a step that
\* takes d ms
TimeLeft(d) == now < 0 \/ now <= MaxMillis - d

\* As line 126 would be if the link were not looked at
LinkDownIgnored(connected) == FALSE

\* Line 126: WiFi.status() != WL_CONNECTED
LinkDown(connected) == ~connected

\* As lines 126-129 would be if the early return printed nothing
FetchUnavailableSilent ==
    /\ out' = <<>>
    /\ outcome' = "link_unavailable"
    /\ UNCHANGED <<now, calls, resp>>

\* Lines 126-129: the early return
FetchUnavailable ==
    /\ out' = << CannotFetchNotice >>
    /\ outcome' = "link_unavailable"
    /\ UNCHANGED <<now, calls, resp>>

\* Lines 131-170
FetchResponse(httpCode, body, d) ==
    /\ TimeLeft(d)
    /\ now' = U32Add(now, d)
    /\ out' = FetchHeaderLines \o ResponseLines(httpCode, body, now')
    /\ calls' = calls \o ResponseCalls(httpCode, body)
    /\ resp' = [code |-> httpCode, body |-> body]
    /\ outcome' = Branch(httpCode, body)

\* fetchTrainData() against a server that answers with one of bodies
Fetch(bodies) ==
    /\ pc = "fetch"
    /\ pc' = "stamp"
    /\ IF LinkDown(link)
       THEN FetchUnavailable
       ELSE \E httpCode \in HttpCodes, body \in bodies, d \in GetDurations :
                FetchResponse(httpCode, body, d)
    /\ UNCHANGED <<phase, link, lastUpdate, attempts, wifiOut>>

FetchTrainData == Fetch(Bodies)

---------------------------------------------------------------------------
(* The link.  WiFi.status() is answered by the WiFi stack, which runs      *)
(* beside the sketch: once the radio was started by the first WiFi.begin,  *)
(* the link may associate (a join or the stack's automatic reconnection)   *)
(* or drop between any two steps of the sketch.                            *)

RadioStarted == ~(pc = "setup" \/ (pc = "cw_begin" /\ phase = "setup"))

LinkChange ==
    /\ RadioStarted
    /\ link' = ~link
    /\ UNCHANGED <<pc, phase, now, lastUpdate, attempts, wifiOut, out, calls,
                   resp, outcome>>

---------------------------------------------------------------------------
(* setup(), lines 45-57: serial port, banner, then connectWiFi() *)

BootBanner ==
    << "", "", "=================================",
       "Metro-North Railroad Train Clock",
       "=================================", "" >>

\* while (!Serial) delay(10): the port is there at once, or after ten waits
SerialWaits == {0, 10}

Setup ==
    /\ pc = "setup"
    /\ \E k \in SerialWaits : now' = U32Add(now, k * SerialWaitMs)
    /\ wifiOut' = BootBanner
    /\ pc' = "cw_begin"
    /\ UNCHANGED <<phase, link, lastUpdate, attempts, out, calls, resp, outcome>>

---------------------------------------------------------------------------
(* connectWiFi() *)

\* Lines 91-92: WiFi.mode(WIFI_STA); WiFi.begin(ssid, password);
JoinCalls == << "WiFi.mode", "WiFi.begin" >>

\* Lines 88-94: announce, start the join, attempts = 0
CwBegin ==
    /\ pc = "cw_begin"
    /\ wifiOut' = wifiOut \o << "Connecting to WiFi network: " \o WifiSsid >>
    /\ calls' = calls \o JoinCalls
    /\ attempts' = 0
    /\ pc' = "cw_poll"
    /\ UNCHANGED <<phase, link, now, lastUpdate, out, resp, outcome>>

\* As line 95 would be without the bound on the attempts
PollAgainUnbounded(connected, n) == ~connected

\* while (WiFi.status() != WL_CONNECTED && attempts < 40)
PollAgain(connected, n) == ~connected /\ n < MaxConnectAttempts

\* Line 95 true, lines 96-98: delay(500), a dot, attempts++
CwPoll ==
    /\ pc = "cw_poll"
    /\ PollAgain(link, attempts)
    /\ TimeLeft(ConnectPollDelay)
    /\ now' = U32Add(now, ConnectPollDelay)
    /\ attempts' = attempts + 1
    /\ UNCHANGED <<pc, phase, link, lastUpdate, wifiOut, out, calls, resp,
                   outcome>>

\* Line 95 false: the loop is left
CwExit ==
    /\ pc = "cw_poll"
    /\ ~PollAgain(link, attempts)
    /\ pc' = "cw_report"
    /\ UNCHANGED <<phase, link, now, lastUpdate, attempts, wifiOut, out, calls,
                   resp, outcome>>

\* printWiFiStatus(): the address and the signal strength are the device's
WiFiStatusLines ==
    << "IP Address: <localIP>", "Signal Strength (RSSI): <RSSI> dBm", "" >>

ConnectedNotice == "WiFi connected!"
FailedNotice == "Failed to connect to WiFi"

\* Lines 101-107; the println with a leading "\n" ends the line of dots
ReportLines(connected, n) ==
    << Repeat(".", n) >> \o
    ( IF connected THEN << ConnectedNotice >> \o WiFiStatusLines
      ELSE << FailedNotice, "Please check credentials in config.h" >> )

\* Lines 101-108: report by a fresh WiFi.status(), return to the caller
CwReport ==
    /\ pc = "cw_report"
    /\ wifiOut' = wifiOut \o ReportLines(link, attempts)
    /\ attempts' = 0
    /\ pc' = IF phase = "setup" THEN "fetch" ELSE "loop_interval"
    /\ UNCHANGED <<phase, link, now, lastUpdate, out, calls, resp, outcome>>

---------------------------------------------------------------------------
(* lastUpdate = millis(); after fetchTrainData() in setup() (line 61) and  *)
(* in loop() (line 77)                                                     *)

\* As lines 61 and 77 would be if only a pass that got and decoded a body
\* moved lastUpdate
StampOnSuccess ==
    /\ pc = "stamp"
    /\ lastUpdate' = IF outcome \in {"no_key", "empty", "rendered"} THEN now
                                                                     ELSE lastUpdate
    /\ pc' = IF phase = "setup" THEN "loop_check" ELSE "loop_delay"
    /\ phase' = "loop"
    /\ UNCHANGED <<link, now, attempts, wifiOut, out, calls, resp, outcome>>

Stamp ==
    /\ pc = "stamp"
    /\ lastUpdate' = now
    /\ pc' = IF phase = "setup" THEN "loop_check" ELSE "loop_delay"
    /\ phase' = "loop"
    /\ UNCHANGED <<link, now, attempts, wifiOut, out, calls, resp, outcome>>

---------------------------------------------------------------------------
(* loop() *)

DisconnectedNotice == "WiFi disconnected. Reconnecting..."

\* As line 69 would be if loop() reconnected in every iteration
NeedsReconnectAlways(connected) == TRUE

\* Line 69: WiFi.status() != WL_CONNECTED
NeedsReconnect(connected) == ~connected

\* As loop() would be if it reported the drop and did not reconnect
LoopCheckNoReconnect ==
    /\ pc = "loop_check"
    /\ wifiOut' = IF NeedsReconnect(link) THEN << DisconnectedNotice >> ELSE <<>>
    /\ pc' = "loop_interval"
    /\ out' = <<>>
    /\ calls' = <<>>
    /\ resp' = NoResponse
    /\ outcome' = "none"
    /\ UNCHANGED <<phase, link, now, lastUpdate, attempts>>

\* As lines 69-72 would be if loop() waited for the link to come back
\* instead of calling connectWiFi() and going on
LoopCheckWaiting ==
    /\ pc = "loop_check"
    /\ ~NeedsReconnect(link)
    /\ wifiOut' = <<>>
    /\ pc' = "loop_interval"
    /\ out' = <<>>
    /\ calls' = <<>>
    /\ resp' = NoResponse
    /\ outcome' = "none"
    /\ UNCHANGED <<phase, link, now, lastUpdate, attempts>>

\* Lines 69-72, the start of an iteration
LoopCheck ==
    /\ pc = "loop_check"
    /\ IF NeedsReconnect(link)
       THEN /\ wifiOut' = << DisconnectedNotice >>
            /\ pc' = "cw_begin"
       ELSE /\ wifiOut' = <<>>
            /\ pc' = "loop_interval"
    /\ out' = <<>>
    /\ calls' = <<>>
    /\ resp' = NoResponse
    /\ outcome' = "none"
    /\ UNCHANGED <<phase, link, now, lastUpdate, attempts>>

\* As line 75 would be if millis() were compared with the time the next pass
\* is due, lastUpdate + UPDATE_INTERVAL, both unsigned long
IntervalElapsedByDeadline(millis, last) ==
    LET due == U32Add(last, UPDATE_INTERVAL) IN
    IF (millis >= 0) = (due >= 0) THEN millis >= due ELSE millis < 0

\* As line 75 would be if the clock itself were compared with the interval
IntervalElapsedSinceBoot(millis, last) == U32Ge(millis, UPDATE_INTERVAL)

\* millis() - lastUpdate >= UPDATE_INTERVAL, in unsigned long arithmetic
IntervalElapsed(millis, last) == U32Ge(U32Sub(millis, last), UPDATE_INTERVAL)

\* Line 75
LoopInterval ==
    /\ pc = "loop_interval"
    /\ pc' = IF IntervalElapsed(now, lastUpdate) THEN "fetch" ELSE "loop_delay"
    /\ UNCHANGED <<phase, link, now, lastUpdate, attempts, wifiOut, out, calls,
                   resp, outcome>>

\* Line 81: delay(100)
LoopDelay ==
    /\ pc = "loop_delay"
    /\ TimeLeft(LoopDelayMs)
    /\ now' = U32Add(now, LoopDelayMs)
    /\ pc' = "loop_check"
    /\ UNCHANGED <<phase, link, lastUpdate, attempts, wifiOut, out, calls,
                   resp, outcome>>

---------------------------------------------------------------------------

Init ==
    /\ pc = "setup"
    /\ phase = "setup"
    /\ link = FALSE
    /\ now = 0
    /\ lastUpdate = 0
    /\ attempts = 0
    /\ wifiOut = <<>>
    /\ out = <<>>
    /\ calls = <<>>
    /\ resp = NoResponse
    /\ outcome = "none"

Next ==
    \/ Setup
    \/ CwBegin
    \/ CwPoll
    \/ CwExit
    \/ CwReport
    \/ FetchTrainData
    \/ Stamp
    \/ LoopCheck
    \/ LoopInterval
    \/ LoopDelay
    \/ LinkChange

Spec == Init /\ [][Next]_vars

---------------------------------------------------------------------------
(* One pass on its own: fetchTrainData() called with the link up or down,  *)
(* against a server whose answer is any of PassBodies.  The texts are      *)
(* empty, ordinary, exactly as wide as their column, and one character     *)
(* wider; the numbers lie on both sides of every boundary of the delay     *)
(* note.                                                                   *)

RouteValues ==
    { None, Num(7), Str(""), Str("Hudson Line"), Str(Repeat("R", 38)),
      Str(Repeat("R", 39)) }
DestinationValues ==
    { None, Str("Grand Central"), Str(Repeat("D", 44)), Str(Repeat("D", 45)) }
TrackValues == { None, Num(5), Str("5") }
ArrivalValues == { None, Str("14:30") }
StatusValues == { None, Str("On Time"), Str(Repeat("S", 34)), Str(Repeat("S", 44)) }
DelayValues ==
    { None, Str("120"), Num(-60), Num(0), Num(59), Num(125), Num(599),
      Num(600), Num(5999), Num(6000), Num(60000) }

PassTrains ==
    [trip_id : {None, Str("123")}, route : RouteValues,
     destination : DestinationValues, track : TrackValues,
     arrival_time : ArrivalValues, status : StatusValues,
     delay_seconds : DelayValues]

\* Ten trains, for an ordinal of two digits
TenTrains == [i \in 1..10 |-> IF i % 2 = 0 THEN LateTrain ELSE ExampleTrain]

PassBodies ==
    Bodies
    \cup { GoodBody(Doc(TRUE, TRUE, <<t>>)) : t \in PassTrains }
    \cup { GoodBody(Doc(TRUE, TRUE, TenTrains)) }

\* The state in which loop() calls fetchTrainData() for the first time, the
\* setup pass having been made at time 0; the link may have dropped since
\* the check of line 69
PassInit ==
    /\ pc = "fetch"
    /\ phase = "loop"
    /\ link \in BOOLEAN
    /\ now = UPDATE_INTERVAL
    /\ lastUpdate = 0
    /\ attempts = 0
    /\ wifiOut = <<>>
    /\ out = <<>>
    /\ calls = <<>>
    /\ resp = NoResponse
    /\ outcome = "none"

PassFetch == Fetch(PassBodies)

PassSpec == PassInit /\ [][PassFetch]_vars

---------------------------------------------------------------------------
(* loop() across the wrap-around of millis(), after 2^32 ms of running.    *)
(* The last pass was made and lastUpdate taken WrapLead ms before the      *)
(* wrap; two iterations of loop() later, both without a drop of the link,  *)
(* the sketch is at line 69 again.  setup() is long over.                  *)

WrapInit ==
    /\ pc = "loop_check"
    /\ phase = "loop"
    /\ link \in BOOLEAN
    /\ lastUpdate = U32Sub(0, WrapLead)
    /\ now = U32Add(U32Add(lastUpdate, LoopDelayMs), LoopDelayMs)
    /\ attempts = 0
    /\ wifiOut = <<>>
    /\ out = <<>>
    /\ calls = <<>>
    /\ resp = NoResponse
    /\ outcome = "none"

WrapNext ==
    \/ CwBegin
    \/ CwPoll
    \/ CwExit
    \/ CwReport
    \/ FetchTrainData
    \/ Stamp
    \/ LoopCheck
    \/ LoopInterval
    \/ LoopDelay
    \/ LinkChange

WrapSpec == WrapInit /\ [][WrapNext]_vars

---------------------------------------------------------------------------
(* loop() as the Arduino core runs it: called again whenever it returns,   *)
(* and every call it makes returns (delay() after its time, http.GET()     *)
(* within its timeout, connectWiFi() after 40 polls at most), so the       *)
(* sketch always takes its next step.  The link owes nothing: it may stay  *)
(* down for ever or change at any time.  lastUpdate was taken LiveLead ms  *)
(* before the wrap, and the sketch is at line 69 at the end of the         *)
(* interval, the iterations before having found it not yet over.           *)

LiveInit ==
    /\ pc = "loop_check"
    /\ phase = "loop"
    /\ link \in BOOLEAN
    /\ lastUpdate = U32Sub(0, LiveLead)
    /\ now = U32Add(lastUpdate, UPDATE_INTERVAL)
    /\ attempts = 0
    /\ wifiOut = <<>>
    /\ out = <<>>
    /\ calls = <<>>
    /\ resp = NoResponse
    /\ outcome = "none"

\* A step of the sketch
SketchStep ==
    \/ CwBegin
    \/ CwPoll
    \/ CwExit
    \/ CwReport
    \/ FetchTrainData
    \/ Stamp
    \/ LoopCheck
    \/ LoopInterval
    \/ LoopDelay

LiveNext == SketchStep \/ LinkChange

LiveSpec == LiveInit /\ [][LiveNext]_vars /\ WF_vars(SketchStep)

---------------------------------------------------------------------------
(* Reading the state *)

\* The pass of this iteration has returned
PassDone == outcome # "none"

\* The decoded array of the response, and its records as displayed
Snapshot == TrainsOf(resp.body.doc)

\* In out, a rendered report starts after the three lines of the fetch
\* header, the line of the response code and the five lines of the banner
ReportStart == Len(FetchHeaderLines) + 1 + Len(Banner)

\* The eight bordered lines of the k-th block of out
BlockLines(k) == SubSeq(out, ReportStart + 9 * (k - 1) + 1, ReportStart + 9 * (k - 1) + 8)

\* Every text of the k-th record fits its column: no padding is negative
Fits(k) ==
    LET r == Extract(Snapshot[k]) IN
    /\ HeaderPadding(r.route) >= 0
    /\ FieldPadding(r.destination) >= 0
    /\ FieldPadding(r.track) >= 0
    /\ FieldPadding(r.arrival_time) >= 0
    /\ StatusPadding(r.status, r.delay_seconds) >= 0

\* x is one of the elements of seq
Contains(seq, x) == \E i \in 1..Len(seq) : seq[i] = x

\* line begins with prefix
StartsWith(line, prefix) ==
    Len(line) >= Len(prefix) /\ SubSeq(line, 1, Len(prefix)) = prefix

\* Some line of out begins with prefix
SomeLineStarts(prefix) == \E i \in 1..Len(out) : StartsWith(out[i], prefix)

\* loop() found the link down at the start of this iteration
DropReported == wifiOut # <<>> /\ wifiOut[1] = DisconnectedNotice

\* connectWiFi() has been called in this iteration and has returned
ConnectReturned ==
    Contains(wifiOut, ConnectedNotice) \/ Contains(wifiOut, FailedNotice)

\* The line of dots of this iteration's connectWiFi() call: one dot per poll.
\* It follows what was printed before the call and the announcement.
DotsLine ==
    wifiOut[(IF DropReported THEN 1 ELSE Len(BootBanner)) + 2]

---------------------------------------------------------------------------
(* C1: for every record whose texts fit their columns, and every ordinal,  *)
(* the eight bordered lines of its rendered block (top border, header,     *)
(* separator, destination, track, arrival, status, bottom border) have the *)
(* same number of characters.                                              *)

C1_EqualWidth ==
    outcome = "rendered" =>
        \A k \in 1..Len(Snapshot) :
            Fits(k) =>
                \A i, j \in 1..8 : Len(BlockLines(k)[i]) = Len(BlockLines(k)[j])

---------------------------------------------------------------------------
(* C2, as claimed: when loop() has found the link down before a pass, that *)
(* pass reports that the link is unavailable.                              *)

C2_NextPassUnavailable ==
    (phase = "loop" /\ DropReported /\ PassDone) => outcome = "link_unavailable"

(* C2, amended: when loop() finds the link down, connectWiFi() is called   *)
(* in the same iteration, before any pass; and a pass reports that the     *)
(* link is unavailable exactly when the link is down as the pass begins.   *)

C2_ReconnectBeforePass ==
    /\ [](DropReported /\ pc # "cw_begin" =>
              Len(calls) >= 2 /\ SubSeq(calls, 1, 2) = JoinCalls)
    /\ [][(pc = "fetch" /\ pc' # pc) =>
              /\ (outcome' = "link_unavailable") = ~link
              /\ (out' = << CannotFetchNotice >>) = ~link]_vars

C2_Witness ==
    phase = "loop" /\ DropReported /\ PassDone /\ outcome = "rendered"

---------------------------------------------------------------------------
(* C3, as claimed: connectWiFi() called while the link is connected is a   *)
(* no-op: it issues no join request and leaves the link as it is.          *)

C3_NoJoinWhenConnected ==
    [][(pc = "cw_begin" /\ link /\ pc' # pc) =>
           (calls' = calls /\ link' = link)]_vars

(* C3, amended: connectWiFi() itself is not guarded: every call, whatever  *)
(* the link's state, issues one join request (WiFi.mode, WiFi.begin).  It  *)
(* is loop() that does nothing when the link is connected: it calls        *)
(* connectWiFi() only when WiFi.status() is not WL_CONNECTED.              *)

C3_JoinOnEveryCall ==
    /\ [][(pc = "cw_begin" /\ pc' # pc) => calls' = calls \o JoinCalls]_vars
    /\ [][(pc = "loop_check" /\ pc' # pc) =>
              IF link THEN pc' = "loop_interval" /\ calls' = <<>>
                      ELSE pc' = "cw_begin"]_vars

C3_Witness ==
    /\ phase = "loop" /\ pc = "cw_poll" /\ attempts = 0 /\ link
    /\ calls = JoinCalls

---------------------------------------------------------------------------
(* C4: every call of connectWiFi() ends after at most 40 polls of the      *)
(* status, half a second apart, whatever the link does: the polling goes   *)
(* on only while the link is down and fewer than 40 polls were made; the   *)
(* call then reports by the status it reads (connected: "WiFi connected!", *)
(* otherwise "Failed to connect to WiFi") and returns to its caller.       *)

---------------------------------------------------------------------------
(* C5: when the link is down as a pass begins, fetchTrainData() prints the *)
(* "cannot fetch" notice and returns: no call on the HTTP client, the JSON *)
(* library or the WiFi library, and no other change of state.              *)

C5_UnavailableNoSideEffects ==
    [][(pc = "fetch" /\ ~link /\ pc' # pc) =>
           /\ out' = << CannotFetchNotice >>
           /\ pc' = "stamp"
           /\ calls' = calls
           /\ resp' = resp
           /\ UNCHANGED <<phase, link, now, lastUpdate, attempts, wifiOut>>]_vars

C5_Witness ==
    pc = "stamp" /\ outcome = "link_unavailable" /\ out = << CannotFetchNotice >>

---------------------------------------------------------------------------
(* C6, as claimed: a pass that ends in link-unavailable, transport error,  *)
(* non-success status or malformed body leaves lastUpdate unchanged.       *)

FailedOutcomes == {"link_unavailable", "transport_error", "http_status", "parse_failed"}

C6_StampOnlyOnSuccess ==
    [][(pc = "stamp" /\ outcome \in FailedOutcomes) => lastUpdate' = lastUpdate]_vars

(* C6, amended: lastUpdate is set to millis() after every pass, whatever   *)
(* the pass's outcome, and nowhere else.                                   *)

C6_StampAfterEveryPass ==
    /\ [][(pc = "stamp" /\ pc' # pc) => lastUpdate' = now]_vars
    /\ [][lastUpdate' # lastUpdate => (pc = "stamp" /\ PassDone)]_vars
    /\ [](PassDone /\ pc # "stamp" => lastUpdate = now \/ pc = "loop_check")

\* A failed pass has returned and lastUpdate has been moved to its time
C6_Witness ==
    /\ pc \in {"loop_check", "loop_delay"} /\ phase = "loop"
    /\ outcome \in FailedOutcomes
    /\ lastUpdate = now /\ now > 0

---------------------------------------------------------------------------
(* C7: a GET made in a pass has exactly one of three outcomes.  A          *)
(* transport error (code <= 0) prints the error's text and nothing is      *)
(* parsed; a status other than 200 prints the numeric code and nothing is  *)
(* parsed; status 200 is the one outcome in which the body is read and     *)
(* parsed, and displayed if it decodes.  In each the session is closed.    *)

Parsed == Contains(calls, "deserializeJson")
Displayed == Contains(calls, "displayTrainInfo")
BodyRead == Contains(calls, "http.getString")

C7_ThreeOutcomes ==
    (PassDone /\ outcome # "link_unavailable") =>
        /\ SubSeq(out, 1, 3) = FetchHeaderLines
        /\ Cardinality({i \in 1..Len(calls) : calls[i] = "http.GET"}) = 1
        /\ calls[Len(calls)] = "http.end"
        /\ IF resp.code <= 0
           THEN /\ outcome = "transport_error"
                /\ Len(out) = 4
                /\ out[4] = "HTTP request error: " \o ErrorToString(resp.code)
                /\ ~BodyRead /\ ~Parsed /\ ~Displayed
           ELSE IF resp.code # 200
           THEN /\ outcome = "http_status"
                /\ Len(out) = 5
                /\ out[4] = "HTTP Response Code: " \o IntToStr(resp.code)
                /\ out[5] = "HTTP request failed"
                /\ ~BodyRead /\ ~Parsed /\ ~Displayed
           ELSE /\ outcome \in {"parse_failed", "no_key", "empty", "rendered"}
                /\ out[4] = "HTTP Response Code: 200"
                /\ BodyRead /\ Parsed
                /\ Displayed = resp.body.ok
                /\ ~SomeLineStarts("HTTP request ")

C7_Witness ==
    /\ PassDone /\ resp.code = 404 /\ outcome = "http_status"
    /\ out[5] = "HTTP request failed"

---------------------------------------------------------------------------
(* C8: every pass, whatever its outcome, prints at least one line that     *)
(* tells why it ended as it did.                                           *)

ReasonShown ==
    CASE outcome = "link_unavailable" -> Contains(out, CannotFetchNotice)
      [] outcome = "transport_error"  -> SomeLineStarts("HTTP request error: ")
      [] outcome = "http_status"      ->
             /\ Contains(out, "HTTP Response Code: " \o IntToStr(resp.code))
             /\ Contains(out, "HTTP request failed")
      [] outcome = "parse_failed"     -> SomeLineStarts("JSON parsing failed: ")
      [] outcome = "no_key"           -> Contains(out, NoTrainDataNotice)
      [] outcome = "empty"            -> Contains(out, NoUpcomingNotice)
      [] outcome = "rendered"         ->
             Contains(out, "Total trains: " \o IntToStr(Len(Snapshot)))
      [] OTHER                        -> FALSE

\* The outcome is the one the link and the response call for
OutcomeOf(connected) ==
    IF ~connected THEN "link_unavailable"
    ELSE IF resp.code <= 0 THEN "transport_error"
    ELSE IF resp.code # 200 THEN "http_status"
    ELSE IF ~resp.body.ok THEN "parse_failed"
    ELSE IF ~resp.body.doc.hasTrains THEN "no_key"
    ELSE IF Snapshot = <<>> THEN "empty"
    ELSE "rendered"

C8_NoSilentPass ==
    /\ [](PassDone => Len(out) >= 1 /\ ReasonShown)
    /\ [][(pc = "fetch" /\ pc' # pc) =>
              (PassDone' /\ outcome' = OutcomeOf(link)')]_vars

C8_Witness ==
    PassDone /\ outcome = "transport_error" /\ Len(out) = 4 /\ ReasonShown

---------------------------------------------------------------------------
(* C9, as claimed: a decoded body whose "trains" array is present and      *)
(* empty renders the "no upcoming trains scheduled" notice and reports a   *)
(* total of zero trains.                                                   *)

EmptyFeed ==
    /\ PassDone /\ outcome # "link_unavailable"
    /\ resp.code = 200 /\ resp.body.ok
    /\ resp.body.doc.hasTrains /\ resp.body.doc.isArray
    /\ resp.body.doc.elems = <<>>

C9_EmptyReportsZero ==
    EmptyFeed =>
        /\ Contains(out, NoUpcomingNotice)
        /\ Contains(out, "Total trains: 0")

(* C9, amended: such a body renders the banner and the "no upcoming trains *)
(* scheduled" notice and nothing after it: no summary is printed, so no    *)
(* total is reported; and no error is reported.                            *)

C9_EmptyFeedNotice ==
    EmptyFeed =>
        /\ out = FetchHeaderLines \o << "HTTP Response Code: 200" >>
                     \o Banner \o << NoUpcomingNotice >>
        /\ ~SomeLineStarts("Total trains: ")
        /\ ~SomeLineStarts("JSON parsing failed")
        /\ ~SomeLineStarts("HTTP request ")
        /\ ~Contains(out, NoTrainDataNotice)

C9_Witness == EmptyFeed /\ out[Len(out)] = NoUpcomingNotice

---------------------------------------------------------------------------
(* C10: the three degraded bodies are told apart and none stops the        *)
(* program.  A body that does not decode gives the parse-failure line, a   *)
(* decoded body without "trains" gives "No train data available", a        *)
(* decoded body with an empty "trains" array gives "No upcoming trains     *)
(* scheduled"; each pass shows its own notice and neither of the other     *)
(* two, returns to its caller, and loop() goes on.                         *)

DegradedNotices ==
    << SomeLineStarts("JSON parsing failed: "),
       Contains(out, NoTrainDataNotice),
       Contains(out, NoUpcomingNotice) >>

Only(k) == \A i \in 1..3 : DegradedNotices[i] = (i = k)

GotBody == PassDone /\ outcome # "link_unavailable" /\ resp.code = 200

C10_DegradedBodies ==
    /\ [](GotBody /\ ~resp.body.ok => Only(1))
    /\ [](GotBody /\ resp.body.ok /\ ~resp.body.doc.hasTrains => Only(2))
    /\ [](GotBody /\ resp.body.ok /\ resp.body.doc.hasTrains
              /\ resp.body.doc.isArray /\ resp.body.doc.elems = <<>> => Only(3))
    /\ [](PassDone => pc \in {"stamp", "loop_delay", "loop_check"})
    /\ [][(pc = "stamp" /\ pc' # pc) =>
              pc' = (IF phase = "setup" THEN "loop_check" ELSE "loop_delay")]_vars
    /\ [][(pc = "loop_delay" /\ pc' # pc) => pc' = "loop_check"]_vars

\* After a body that did not decode, the sketch is at the top of loop() again
C10_Witness ==
    /\ GotBody /\ ~resp.body.ok /\ Only(1)
    /\ pc = "loop_check" /\ phase = "loop"

---------------------------------------------------------------------------
(* C11: the status line carries " (+<m> min)", m = delay_seconds / 60 in   *)
(* integer division, right after the status text exactly when the record's *)
(* delay_seconds is a number above zero; when it is zero, negative, absent *)
(* or no number, nothing but spaces stands between the status text and the *)
(* closing border.                                                         *)

StatusLabel == "|   Status:       "

\* The status line of the k-th block, after the label and the status text
StatusRest(k) ==
    LET line == BlockLines(k)[7]
        from == Len(StatusLabel) + Len(Extract(Snapshot[k]).status) + 1
    IN  SubSeq(line, from, Len(line))

\* s is spaces, if any, and then the closing border
BlankToBorder(s) == Len(s) >= 1 /\ s = Repeat(" ", Len(s) - 1) \o "|"

\* s begins with the annotation of m minutes, and only spaces follow it
AnnotatedBy(s, m) ==
    LET note == " (+" \o NatToStr(m) \o " min)" IN
    /\ StartsWith(s, note)
    /\ BlankToBorder(SubSeq(s, Len(note) + 1, Len(s)))

C11_DelayNote ==
    outcome = "rendered" =>
        \A k \in 1..Len(Snapshot) :
            LET v == Snapshot[k].delay_seconds IN
            IF v.t = "int" /\ v.n > 0
            THEN AnnotatedBy(StatusRest(k), v.n \div 60)
            ELSE BlankToBorder(StatusRest(k))

\* 125 seconds are shown as two minutes
C11_Witness ==
    /\ outcome = "rendered" /\ Len(Snapshot) = 1
    /\ Snapshot[1].delay_seconds = Num(125)
    /\ Snapshot[1].status = Str("On Time")
    /\ StartsWith(BlockLines(1)[7], StatusLabel \o "On Time (+2 min) ")

---------------------------------------------------------------------------
(* C12: for every record with delay_seconds > 0 whose status line has room *)
(* for its text, whatever the number of digits of the minutes, the status  *)
(* line with the delay annotation is as wide as the status line of the     *)
(* same status text without annotation.                                    *)

C12_AnnotatedWidth ==
    outcome = "rendered" =>
        \A k \in 1..Len(Snapshot) :
            LET r == Extract(Snapshot[k]) IN
            (r.delay_seconds > 0 /\ StatusPadding(r.status, r.delay_seconds) >= 0)
                => Len(BlockLines(k)[7]) = Len(StatusLine(r.status, 0))

---------------------------------------------------------------------------
(* C13: in every rendered record, a text field that is a string is shown   *)
(* as it is and one that is missing or no string is shown as its default   *)
(* (route "Unknown Route", destination "Unknown", track "TBD",             *)
(* arrival_time "N/A", status "Unknown"; trip_id is held as "N/A" and is   *)
(* not part of the block); a delay_seconds that is missing or no number    *)
(* counts as 0.  Every record of the array gets its block of nine lines,   *)
(* and the pass ends with the summary and returns to its caller.           *)

\* The text the block shows for the member v whose default is d
Shown(v, d) == IF v.t = "str" THEN v.s ELSE d

\* line is label, text, spaces if any, and the closing border
Shows(line, label, text) ==
    /\ StartsWith(line, label \o text)
    /\ BlankToBorder(SubSeq(line, Len(label) + Len(text) + 1, Len(line)))

\* The k-th block shows the k-th record, defaults in the place of what is
\* missing or of the wrong type
BlockShows(k) ==
    LET t == Snapshot[k]
        b == BlockLines(k)
    IN  /\ Shows(b[2], "| Train #" \o NatToStr(k) \o " - ", Shown(t.route, "Unknown Route"))
        /\ Shows(b[4], "| > Destination:  ", Shown(t.destination, "Unknown"))
        /\ Shows(b[5], "|   Track:        ", Shown(t.track, "TBD"))
        /\ Shows(b[6], "|   Arrival:      ", Shown(t.arrival_time, "N/A"))
        /\ StartsWith(b[7], StatusLabel \o Shown(t.status, "Unknown"))
        /\ (t.delay_seconds.t # "int" => BlankToBorder(StatusRest(k)))
        /\ Extract(t).trip_id = Shown(t.trip_id, "N/A")
        /\ Extract(t).delay_seconds
               = (IF t.delay_seconds.t = "int" THEN t.delay_seconds.n ELSE 0)

---------------------------------------------------------------------------
(* C14: setup() makes one pass at once; every later pass starts from line  *)
(* 75 of loop(), when no pass of this iteration is under way or done and   *)
(* at least UPDATE_INTERVAL milliseconds have gone by since lastUpdate was *)
(* taken; and a pass that has started is followed by nothing but its own   *)
(* return and the taking of lastUpdate.                                    *)

C14_SequentialGated ==
    /\ [][(pc # "fetch" /\ pc' = "fetch") =>
              IF phase = "setup"
              THEN pc = "cw_report" /\ lastUpdate = 0 /\ outcome = "none"
              ELSE /\ pc = "loop_interval"
                   /\ outcome = "none"
                   /\ now - lastUpdate >= UPDATE_INTERVAL]_vars
    /\ [][(pc = "fetch" /\ pc' # pc) => (pc' = "stamp" /\ PassDone')]_vars
    /\ [][(pc = "stamp" /\ pc' # pc) =>
              (lastUpdate' = now /\ pc' \in {"loop_check", "loop_delay"})]_vars

\* A second pass is about to start, 30000 ms after a first that ended late
C14_Witness ==
    /\ pc = "fetch" /\ phase = "loop" /\ outcome = "none"
    /\ lastUpdate > 0 /\ now - lastUpdate = UPDATE_INTERVAL

---------------------------------------------------------------------------
(* C15: a pass that renders an array of n >= 1 records prints n blocks, in *)
(* the array's order; the header of the k-th block carries the ordinal k   *)
(* and shows the k-th record, in the pass of setup() and in every pass of  *)
(* loop() alike; and the summary line that follows the blocks reports a    *)
(* total of n.                                                             *)

C15_Ordinals ==
    outcome = "rendered" =>
        LET n == Len(Snapshot) IN
        /\ n >= 1
        /\ Len(out) = ReportStart + 9 * n + 3
        /\ \A k \in 1..n :
               LET t == Snapshot[k]
                   b == BlockLines(k)
               IN  /\ StartsWith(b[2], "| Train #" \o NatToStr(k) \o " - "
                                           \o Shown(t.route, "Unknown Route"))
                   /\ StartsWith(b[4], "| > Destination:  "
                                           \o Shown(t.destination, "Unknown"))
                   /\ StartsWith(b[7], StatusLabel \o Shown(t.status, "Unknown"))
        /\ out[Len(out) - 2] = "Total trains: " \o NatToStr(n)

\* A pass of loop(), after the pass of setup(), numbers its two records 1, 2
C15_Witness ==
    /\ phase = "loop" /\ pc = "stamp" /\ outcome = "rendered" /\ Len(Snapshot) = 2
    /\ StartsWith(BlockLines(1)[2], "| Train #1 - Hudson Line ")
    /\ StartsWith(BlockLines(1)[7], StatusLabel \o "Delayed")
    /\ StartsWith(BlockLines(2)[2], "| Train #2 - Unknown Route ")
    /\ out[Len(out) - 2] = "Total trains: 2"

---------------------------------------------------------------------------
(* C16, as claimed: the padding computed for a rendered line is never      *)
(* negative.                                                               *)

Spaces(p) == IF p < 0 THEN 0 ELSE p

\* line is label, text, n spaces and the closing border
Padded(line, label, text, n) == line = label \o text \o Repeat(" ", n) \o "|"

BlockPadded(k) ==
    LET t == Snapshot[k]
        b == BlockLines(k)
        route == Shown(t.route, "Unknown Route")
        destination == Shown(t.destination, "Unknown")
        track == Shown(t.track, "TBD")
        arrival == Shown(t.arrival_time, "N/A")
        st == Shown(t.status, "Unknown")
        delay == IF t.delay_seconds.t = "int" THEN t.delay_seconds.n ELSE 0
    IN  /\ Padded(b[2], "| Train #" \o NatToStr(k) \o " - ", route,
                  Spaces(HeaderPadding(route)))
        /\ Padded(b[4], "| > Destination:  ", destination,
                  Spaces(FieldPadding(destination)))
        /\ Padded(b[5], "|   Track:        ", track, Spaces(FieldPadding(track)))
        /\ Padded(b[6], "|   Arrival:      ", arrival, Spaces(FieldPadding(arrival)))
        /\ Padded(b[7], StatusLabel, st \o DelayNote(delay),
                  Spaces(StatusPadding(st, delay)))
        /\ b[1] = BlockTop /\ b[3] = BlockSep /\ b[8] = BlockBottom

---------------------------------------------------------------------------
(* C17: a pass that returns early because the link is down calls neither   *)
(* http.begin nor http.end; every other pass, whichever of the six ways it *)
(* ends, calls http.begin exactly once, before every other call on the     *)
(* client, and http.end exactly once, as its last call before it returns.  *)

\* How many times x is among the calls of this iteration
Count(seq, x) == Cardinality({i \in 1..Len(seq) : seq[i] = x})

SessionOutcomes ==
    {"transport_error", "http_status", "parse_failed", "no_key", "empty",
     "rendered"}

C17_SessionBalanced ==
    PassDone =>
        IF outcome = "link_unavailable"
        THEN Count(calls, "http.begin") = 0 /\ Count(calls, "http.end") = 0
        ELSE /\ outcome \in SessionOutcomes
             /\ Count(calls, "http.begin") = 1
             /\ Count(calls, "http.end") = 1
             /\ calls[1] = "http.begin"
             /\ calls[Len(calls)] = "http.end"
             /\ Contains(calls, "http.GET")

\* A pass that got a transport error has closed the session it opened
C17_Witness ==
    /\ PassDone /\ outcome = "transport_error"
    /\ calls = << "http.begin", "http.setTimeout", "http.addHeader", "http.GET",
                  "http.end" >>

---------------------------------------------------------------------------
(* C18: when lastUpdate was taken before millis() wrapped around to 0,     *)
(* every interval test of loop() made before or after the wrap starts a    *)
(* pass if and only if 30000 ms or more have really gone by since          *)
(* lastUpdate was taken.                                                   *)

\* The time gone by since lastUpdate was taken.  Both are within 2^31 ms of
\* the wrap, where the difference of the two signed readings is the time
\* between them.
ReallyElapsed == now - lastUpdate

C18_WrapAround ==
    [][(pc = "loop_interval" /\ pc' # pc) =>
           /\ pc' \in {"fetch", "loop_delay"}
           /\ (pc' = "fetch") <=> (ReallyElapsed >= UPDATE_INTERVAL)]_vars

\* A pass starts after the wrap, 30000 ms after a lastUpdate taken before it
C18_Witness ==
    /\ pc = "fetch" /\ outcome = "none"
    /\ lastUpdate = -WrapLead /\ now >= 0
    /\ ReallyElapsed = UPDATE_INTERVAL

---------------------------------------------------------------------------
(* C19: whatever the link does, as long as time goes on, every iteration   *)
(* of loop() is followed by a call of fetchTrainData(): from the top of    *)
(* loop(), whenever the clock can still be followed for the time that may  *)
(* be needed (what is left of the interval, then one iteration that is     *)
(* spent in a connectWiFi() of 40 polls), a pass starts; and a pass that   *)
(* has started returns, and the sketch comes back to the top of loop(),    *)
(* unless the clock is followed no further.                                *)

\* The longest an iteration of loop() takes without a pass
LongestIteration == MaxConnectAttempts * ConnectPollDelay + LoopDelayMs

\* What is left of the interval
IntervalLeft ==
    IF now - lastUpdate >= UPDATE_INTERVAL THEN 0
    ELSE UPDATE_INTERVAL - (now - lastUpdate)

\* The clock is followed for at least as long as a pass may take to start
TimeAdvances == now + IntervalLeft + LongestIteration <= MaxMillis

=============================================================================
